---- MODULE Spec2Model ----
\* A model of the n8n-g4f-proxy gateway: src/src/app.service.ts (AppService) and
\* src/src/app.controller.ts (AppController).
\*
\*   GET  /v1/models            AppService.getModels: shape normalisation of the
\*                              upstream payload, provider filter, rendering
\*   GET  /v1/providers         AppService.getProviders
\*   POST /v1/chat/completions  AppController.postCompletions: subscribe + pipe
\*
\* JavaScript values are tagged records, so that values of different types can be
\* compared: the tag t is the value's kind, the other field its content.
EXTENDS Integers, Sequences, FiniteSets, TLC

\* ------------------------------------------------------------------ bounds

\* Most model names, over all its provider keys, in a generated provider-keyed
\* payload.
MaxEntries == 3
\* Longest generated array of model-like elements.
MaxArr == 2
\* Most chunks the upstream sends on one completion stream.
MaxChunks == 2

\* --------------------------------------------------------- JavaScript values

Undefined == [t |-> "undefined"]
Null == [t |-> "null"]
Bool(b) == [t |-> "boolean", b |-> b]
Num(n) == [t |-> "number", n |-> n]
\* A string that is a plain word (a model or provider name); never a JSON text.
Str(s) == [t |-> "string", s |-> s]
\* A string given by the sequence of JSON lexemes it is made of.
Text(toks) == [t |-> "string", toks |-> toks]
Arr(a) == [t |-> "array", a |-> a]
\* An object is the sequence of its own enumerable properties, in insertion
\* order (the order of Object.entries / Object.keys / Object.values).
Obj(o) == [t |-> "object", o |-> o]
Prop(k, v) == [k |-> k, v |-> v]
\* The strings of a sequence of words.
Strs(names) == [i \in 1..Len(names) |-> Str(names[i])]

\* typeof v
TypeOf(v) == IF v.t \in {"array", "null"} THEN "object" ELSE v.t

\* Array.isArray(v)
IsArray(v) == v.t = "array"

\* v in a boolean context (`resp.data && ...`, `model.image || false`)
Truthy(v) ==
  CASE v.t = "undefined" -> FALSE
    [] v.t = "null" -> FALSE
    [] v.t = "boolean" -> v.b
    [] v.t = "number" -> v.n # 0
    [] v.t = "string" -> IF "s" \in DOMAIN v THEN v.s # "" ELSE v.toks # <<>>
    [] OTHER -> TRUE

\* Object.keys(v) of an object
Keys(v) == [i \in 1..Len(v.o) |-> v.o[i].k]

\* Object.values(v) of an object
Values(v) == [i \in 1..Len(v.o) |-> v.o[i].v]

\* v.key for a non-null v: the property of an object, undefined on anything
\* else the model holds (primitives and arrays have no such own property).
Get(v, key) ==
  IF v.t = "object" /\ \E i \in 1..Len(v.o) : v.o[i].k = key
  THEN v.o[CHOOSE i \in 1..Len(v.o) : v.o[i].k = key].v
  ELSE Undefined

\* String.prototype.toLowerCase on the strings of the model.
ToLowerCase(s) ==
  CASE s = "A" -> "a"
    [] s = "B" -> "b"
    [] s = "C" -> "c"
    [] s = "OpenaiAPI" -> "openaiapi"
    [] s = "Anthropic" -> "anthropic"
    [] s = "AnyProvider" -> "anyprovider"
    [] s = "NonExistentProvider" -> "nonexistentprovider"
    [] OTHER -> s

\* String(v) for the values a providers array of the model holds.
ToStr(v) ==
  CASE v.t = "string" -> v.s
    [] v.t = "null" -> "null"
    [] v.t = "undefined" -> "undefined"
    [] v.t = "boolean" -> IF v.b THEN "true" ELSE "false"
    [] v.t = "number" -> IF v.n = 0 THEN "0" ELSE "1"
    [] OTHER -> "[object Object]"

\* ------------------------------------------------------------ JSON texts

LBracket == [p |-> "["]
RBracket == [p |-> "]"]
LBrace == [p |-> "{"]
RBrace == [p |-> "}"]
Colon == [p |-> ":"]
Comma == [p |-> ","]
Quoted(s) == [q |-> s]
Digits(n) == [n |-> n]
Word(w) == [w |-> w]

ParseFail == [ok |-> FALSE]
Parsed(v, i) == [ok |-> TRUE, v |-> v, i |-> i]

\* obj[k] = v while parsing: a repeated key keeps its place and takes the
\* later value.
SetProp(o, k, v) ==
  IF \E i \in 1..Len(o) : o[i].k = k
  THEN [i \in 1..Len(o) |-> IF o[i].k = k THEN Prop(k, v) ELSE o[i]]
  ELSE Append(o, Prop(k, v))

RECURSIVE ParseValue(_, _), ParseElements(_, _, _), ParseMembers(_, _, _)
\* One JSON value starting at lexeme i.
ParseValue(toks, i) ==
  IF i > Len(toks) THEN ParseFail
  ELSE LET tk == toks[i] IN
    CASE "q" \in DOMAIN tk -> Parsed(Str(tk.q), i + 1)
      [] "n" \in DOMAIN tk -> Parsed(Num(tk.n), i + 1)
      [] "w" \in DOMAIN tk ->
           CASE tk.w = "null" -> Parsed(Null, i + 1)
             [] tk.w = "true" -> Parsed(Bool(TRUE), i + 1)
             [] tk.w = "false" -> Parsed(Bool(FALSE), i + 1)
             [] OTHER -> ParseFail
      [] tk = LBracket ->
           IF i + 1 <= Len(toks) /\ toks[i + 1] = RBracket
           THEN Parsed(Arr(<<>>), i + 2)
           ELSE ParseElements(toks, i + 1, <<>>)
      [] tk = LBrace ->
           IF i + 1 <= Len(toks) /\ toks[i + 1] = RBrace
           THEN Parsed(Obj(<<>>), i + 2)
           ELSE ParseMembers(toks, i + 1, <<>>)
      [] OTHER -> ParseFail

\* The elements of an array, after "[" or ",".
ParseElements(toks, i, acc) ==
  LET r == ParseValue(toks, i) IN
  IF ~r.ok \/ r.i > Len(toks) THEN ParseFail
  ELSE IF toks[r.i] = Comma THEN ParseElements(toks, r.i + 1, Append(acc, r.v))
  ELSE IF toks[r.i] = RBracket THEN Parsed(Arr(Append(acc, r.v)), r.i + 1)
  ELSE ParseFail

\* The members of an object, after "{" or ",".
ParseMembers(toks, i, acc) ==
  IF i + 1 > Len(toks) \/ "q" \notin DOMAIN toks[i] \/ toks[i + 1] # Colon
  THEN ParseFail
  ELSE LET r == ParseValue(toks, i + 2) IN
    IF ~r.ok \/ r.i > Len(toks) THEN ParseFail
    ELSE IF toks[r.i] = Comma
      THEN ParseMembers(toks, r.i + 1, SetProp(acc, toks[i].q, r.v))
    ELSE IF toks[r.i] = RBrace
      THEN Parsed(Obj(SetProp(acc, toks[i].q, r.v)), r.i + 1)
    ELSE ParseFail

\* JSON.parse(s): [ok |-> FALSE] stands for the SyntaxError it throws.
JSONParse(s) ==
  IF "toks" \notin DOMAIN s THEN ParseFail
  ELSE LET r == ParseValue(s.toks, 1) IN
    IF r.ok /\ r.i = Len(s.toks) + 1 THEN r ELSE ParseFail

RECURSIVE Flatten(_)
Flatten(ss) == IF ss = <<>> THEN <<>> ELSE Head(ss) \o Flatten(Tail(ss))

RECURSIVE Lexemes(_)
\* The lexemes of JSON.stringify(v), for a v that JSON can carry.
Lexemes(v) ==
  CASE v.t = "null" -> <<Word("null")>>
    [] v.t = "boolean" -> <<Word(IF v.b THEN "true" ELSE "false")>>
    [] v.t = "number" -> <<Digits(v.n)>>
    [] v.t = "string" -> <<Quoted(v.s)>>
    [] v.t = "array" ->
         <<LBracket>>
         \o Flatten([i \in 1..Len(v.a) |->
              (IF i > 1 THEN <<Comma>> ELSE <<>>) \o Lexemes(v.a[i])])
         \o <<RBracket>>
    [] v.t = "object" ->
         <<LBrace>>
         \o Flatten([i \in 1..Len(v.o) |->
              (IF i > 1 THEN <<Comma>> ELSE <<>>)
              \o <<Quoted(v.o[i].k), Colon>> \o Lexemes(v.o[i].v)])
         \o <<RBrace>>

\* The string JSON.stringify(v).
JSONStringify(v) == Text(Lexemes(v))

\* --------------------------------------------------- getModels: normalisation

\* An optional string: a header or an environment variable that may be absent.
None == [has |-> FALSE]
Some(x) == [has |-> TRUE, val |-> x]

\* The three object/array rules, as applied to resp.data (lines 46-51) and
\* again to the parsed string (lines 56-58): the array itself, else an array
\* `models` field, else an array `data` field. found says whether one applied.
ArrayRules(d) ==
  IF IsArray(d) THEN [found |-> TRUE, models |-> d.a]
  ELSE IF Truthy(d) /\ IsArray(Get(d, "models"))
    THEN [found |-> TRUE, models |-> Get(d, "models").a]
  ELSE IF Truthy(d) /\ IsArray(Get(d, "data"))
    THEN [found |-> TRUE, models |-> Get(d, "data").a]
  ELSE [found |-> FALSE, models |-> <<>>]

\* isProviderKeyedFormat: every value is an array whose items are all strings.
IsProviderKeyedFormat(d) ==
  \A i \in 1..Len(Values(d)) :
    /\ IsArray(Values(d)[i])
    /\ \A j \in 1..Len(Values(d)[i].a) : TypeOf(Values(d)[i].a[j]) = "string"

\* modelMap.get(name) || []
MapGet(modelMap, name) ==
  IF \E i \in 1..Len(modelMap) : modelMap[i].name = name
  THEN modelMap[CHOOSE i \in 1..Len(modelMap) : modelMap[i].name = name].providers
  ELSE <<>>

\* MapSet, were every set a new entry.
MapSetAppend(modelMap, name, providers) ==
  Append(modelMap, [name |-> name, providers |-> providers])

\* modelMap.set(name, providers): a Map keeps a key at the place of its first
\* insertion.
MapSet(modelMap, name, providers) ==
  IF \E i \in 1..Len(modelMap) : modelMap[i].name = name
  THEN [i \in 1..Len(modelMap) |->
          IF modelMap[i].name = name
          THEN [name |-> name, providers |-> providers]
          ELSE modelMap[i]]
  ELSE Append(modelMap, [name |-> name, providers |-> providers])

\* AddModelNames, were only the first name of each list taken.
AddFirstModelName(modelMap, providerName, modelNames) ==
  IF modelNames = <<>> THEN modelMap
  ELSE MapSet(modelMap, Head(modelNames),
              MapGet(modelMap, Head(modelNames)) \o <<Str(providerName)>>)

RECURSIVE AddModelNames(_, _, _)
\* The inner loop: every name of one provider's list appends the provider to
\* the name's entry.
AddModelNames(modelMap, providerName, modelNames) ==
  IF modelNames = <<>> THEN modelMap
  ELSE AddModelNames(
         MapSet(modelMap, Head(modelNames),
                MapGet(modelMap, Head(modelNames)) \o <<Str(providerName)>>),
         providerName, Tail(modelNames))

RECURSIVE BuildModelMap(_, _)
\* The outer loop over Object.entries(resp.data).
BuildModelMap(modelMap, entries) ==
  IF entries = <<>> THEN modelMap
  ELSE BuildModelMap(
         AddModelNames(modelMap, Head(entries).k, Head(entries).v.a),
         Tail(entries))

\* Array.from(modelMap.entries()).map(([name, providers]) => ({name, providers}))
TransformProviderKeyed(d) ==
  LET modelMap == BuildModelMap(<<>>, d.o) IN
  [i \in 1..Len(modelMap) |->
     Obj(<<Prop("name", modelMap[i].name),
           Prop("providers", Arr(modelMap[i].providers))>>)]

\* Normalize, were the provider-keyed test made before the `models` and `data`
\* fields are looked at.
NormalizeProviderKeyedFirst(d) ==
  IF IsArray(d) THEN [rule |-> "array", models |-> d.a]
  ELSE IF d.t = "object" /\ IsProviderKeyedFormat(d)
  THEN [rule |-> "providerKeyed", models |-> TransformProviderKeyed(d)]
  ELSE IF ArrayRules(d).found
  THEN [rule |-> IF IsArray(Get(d, "models")) THEN "models" ELSE "data",
        models |-> ArrayRules(d).models]
  ELSE IF TypeOf(d) = "string"
  THEN [rule |-> "string",
        models |-> IF JSONParse(d).ok THEN ArrayRules(JSONParse(d).v).models
                   ELSE <<>>]
  ELSE [rule |-> "unexpected", models |-> <<>>]

\* The normalisation of resp.data into `models`, with the branch that ran.
Normalize(d) ==
  IF ArrayRules(d).found
  THEN [rule |-> IF IsArray(d) THEN "array"
                 ELSE IF IsArray(Get(d, "models")) THEN "models" ELSE "data",
        models |-> ArrayRules(d).models]
  ELSE IF TypeOf(d) = "string"
  THEN [rule |-> "string",
        models |-> IF JSONParse(d).ok THEN ArrayRules(JSONParse(d).v).models
                   ELSE <<>>]
  ELSE IF Truthy(d) /\ TypeOf(d) = "object"
  THEN IF IsProviderKeyedFormat(d)
       THEN [rule |-> "providerKeyed", models |-> TransformProviderKeyed(d)]
       ELSE [rule |-> "unexpected", models |-> <<>>]
  ELSE [rule |-> "unexpected", models |-> <<>>]

\* ----------------------------------------------- getModels: filter and render

\* The filter's `providers` of one model.
ProvidersOf(model) ==
  LET p == Get(model, "providers") IN
  IF IsArray(p) THEN p.a
  ELSE IF Truthy(p) /\ TypeOf(p) = "object"
    THEN Strs(Keys(p))
  ELSE IF TypeOf(p) = "string" THEN <<p>>
  ELSE <<>>

\* MatchesProvider, were the provider compared as it is written.
MatchesProviderExact(model, providerKey) ==
  \E i \in 1..Len(ProvidersOf(model)) : ToStr(ProvidersOf(model)[i]) = providerKey

\* providers.some(provider => String(provider).toLowerCase() === providerKey)
MatchesProvider(model, providerKey) ==
  \E i \in 1..Len(ProvidersOf(model)) :
    ToLowerCase(ToStr(ProvidersOf(model)[i])) = providerKey

\* Reading model.providers of a null element throws a TypeError.
FilterThrows(models) ==
  \E i \in 1..Len(models) : models[i].t \in {"null", "undefined"}

\* One rendered entry of data.
Render(model) ==
  [id |-> Get(model, "name"),
   object |-> "model",
   created |-> 0,
   owned_by |-> "",
   image |-> IF Truthy(Get(model, "image")) THEN Get(model, "image")
             ELSE Bool(FALSE),
   provider |-> TRUE]

\* models.slice(0, 5)
SampleSize == 5
Slice(models) ==
  SubSeq(models, 1, IF Len(models) < SampleSize THEN Len(models) ELSE SampleSize)

\* (process.env.LLM_PROXY_PROVIDER ?? '').toLowerCase()
ProviderKey(envProvider) ==
  ToLowerCase(IF envProvider.has THEN envProvider.val ELSE "")

\* What getModels does with the upstream's resp.data: the value it resolves
\* with or the exception it rejects with. The sample of a diagnostic is the
\* value handed to safeStringify.
GetModelsOutcome(d, envProvider) ==
  LET models == Normalize(d).models
      providerKey == ProviderKey(envProvider)
      filteredModels == SelectSeq(models, LAMBDA m : MatchesProvider(m, providerKey))
  IN
  IF models = <<>>
  THEN [kind |-> "NotFoundException", msg |-> "No models found",
        sample |-> d]
  ELSE IF FilterThrows(models)
  THEN [kind |-> "TypeError"]
  ELSE IF filteredModels = <<>>
  THEN [kind |-> "NotFoundException", msg |-> "No models matched",
        sample |-> Slice(models)]
  ELSE [kind |-> "ok", object |-> "list",
        data |-> [i \in 1..Len(filteredModels) |-> Render(filteredModels[i])]]

\* The Authorization header of an upstream request made for inbound header
\* `auth`: `auth ? { Authorization: auth } : {}`.
AuthHeaders(auth) ==
  IF auth.has /\ auth.val # "" THEN Some(auth.val) ELSE None

\* ------------------------------------------------------------------ inputs

ModelNames == {"m", "x"}
ProviderNames == {"A", "B", "b"}

\* LLM_PROXY_PROVIDER: unset, or one of these.
EnvProviders == {None, Some("B"), Some("b"), Some("OpenaiAPI")}

\* headers['authorization'] of an inbound request: absent, empty, or a token.
InboundAuth == {None, Some(""), Some("Bearer T")}

NameLists == UNION {[1..n -> ModelNames] : n \in 0..MaxEntries}

\* The orders in which an object can hold some of the provider names as keys.
KeySeqs ==
  {ks \in UNION {[1..n -> ProviderNames] : n \in 0..Cardinality(ProviderNames)} :
     \A i, j \in 1..Len(ks) : i # j => ks[i] # ks[j]}

RECURSIVE TotalLen(_)
TotalLen(ls) == IF ls = <<>> THEN 0 ELSE Len(Head(ls)) + TotalLen(Tail(ls))

ProviderKeyed(ks, ls) == Obj([i \in 1..Len(ks) |-> Prop(ks[i], Arr(Strs(ls[i])))])

\* Every provider-keyed object over the names above with at most MaxEntries
\* model names in all: any key order, repeated names within and across lists.
GeneratedProviderKeyed ==
  UNION {{ProviderKeyed(ks, ls) :
            ls \in {l \in [1..Len(ks) -> NameLists] : TotalLen(l) <= MaxEntries}} :
         ks \in KeySeqs}

\* The payloads of the tests (app.service.spec.ts) and of the specification's
\* scenarios A to E.
ScenarioA ==
  Obj(<<Prop("Anthropic", Arr(Strs(<<"claude-3-opus", "claude-3-sonnet">>))),
        Prop("OpenaiAPI", Arr(Strs(<<"gpt-4", "claude-3-opus">>)))>>)
ScenarioB == Obj(<<Prop("OpenaiAPI", Arr(Strs(<<"gpt-4", "gpt-3.5-turbo">>)))>>)
ScenarioD == Obj(<<Prop("OpenaiAPI", Arr(Strs(<<"gpt-4">>)))>>)
ScenarioE ==
  Obj(<<Prop("A", Arr(Strs(<<"m">>))),
        Prop("B", Arr(Strs(<<"m", "x">>))),
        Prop("C", Arr(Strs(<<"m">>)))>>)
MultiProvider ==
  Obj(<<Prop("Anthropic", Arr(Strs(<<"claude-3-opus">>))),
        Prop("OpenaiAPI", Arr(Strs(<<"claude-3-opus", "gpt-4">>))),
        Prop("AnyProvider", Arr(Strs(<<"claude-3-opus">>)))>>)

ProviderKeyedPayloads ==
  GeneratedProviderKeyed \cup {ScenarioA, ScenarioB, ScenarioD, ScenarioE, MultiProvider}

\* A model record as the array shapes carry it.
Rec(name, providers) == Obj(<<Prop("name", Str(name)), Prop("providers", providers)>>)

\* What an upstream array may hold: records whose providers is an array, a
\* string, an object, null or missing, a record with an image, and elements
\* that are no records at all.
Elements ==
  {Rec(n, Arr(<<Str(p)>>)) : n \in ModelNames, p \in ProviderNames}
  \cup {Rec("x", Arr(Strs(<<"A", "b">>))),
        Rec("m", Str("B")),
        Rec("x", Obj(<<Prop("b", Bool(TRUE)), Prop("A", Num(1))>>)),
        Rec("m", Null),
        Obj(<<Prop("name", Str("m"))>>),
        Obj(<<Prop("name", Str("x")), Prop("providers", Arr(<<Str("B")>>)),
              Prop("image", Bool(TRUE))>>),
        Null, Num(1), Str("m")}

ArrayPayloads == {Arr(a) : a \in UNION {[1..n -> Elements] : n \in 0..MaxArr}}

ScenarioC ==
  Arr(<<Rec("gpt-4", Arr(<<Str("OpenaiAPI")>>)),
        Rec("gpt-3.5-turbo", Arr(<<Str("OpenaiAPI")>>))>>)

SomeArray == <<Rec("m", Arr(<<Str("B")>>)), Rec("x", Arr(<<Str("A")>>))>>
OtherArray == <<Rec("x", Arr(<<Str("b")>>))>>

\* Objects with a `models` or a `data` field, and objects of no known shape.
ObjectPayloads ==
  {Obj(<<Prop("models", Arr(SomeArray))>>),
   Obj(<<Prop("data", Arr(SomeArray))>>),
   Obj(<<Prop("data", Arr(OtherArray)), Prop("models", Arr(SomeArray))>>),
   Obj(<<Prop("models", Str("m")), Prop("data", Arr(OtherArray))>>),
   Obj(<<Prop("models", Arr(<<>>)), Prop("data", Arr(OtherArray))>>),
   Obj(<<Prop("models", Arr(Strs(<<"m">>))), Prop("B", Arr(Strs(<<"x">>)))>>),
   Obj(<<Prop("data", Arr(Strs(<<"m">>)))>>),
   Obj(<<Prop("models", Arr(<<Null>>))>>),
   Obj(<<Prop("B", Str("m"))>>),
   Obj(<<Prop("B", Arr(<<Num(1)>>))>>),
   Obj(<<Prop("B", Arr(Strs(<<"m">>))), Prop("count", Num(1))>>),
   Obj(<<Prop("models", Null)>>)}

\* The values some upstream sends JSON-encoded a second time.
Encoded ==
  {Arr(SomeArray), Arr(<<>>), Arr(<<Null>>),
   Obj(<<Prop("models", Arr(SomeArray))>>),
   Obj(<<Prop("data", Arr(OtherArray))>>),
   Obj(<<Prop("B", Arr(Strs(<<"m">>)))>>),
   ScenarioE, Null, Num(1), Bool(TRUE), Str("m")}

\* Strings that are no JSON text.
Unparseable ==
  {Text(<<>>), Str("oops"), Text(<<LBracket>>), Text(<<Word("undefined")>>),
   Text(<<LBrace, Quoted("B"), Colon, LBracket, RBracket>>),
   Text(<<LBracket, Quoted("m"), Comma, RBracket>>),
   Text(<<LBracket, RBracket, RBracket>>)}

StringPayloads == {JSONStringify(v) : v \in Encoded} \cup Unparseable

PrimitivePayloads == {Undefined, Null, Num(0), Num(1), Bool(TRUE), Bool(FALSE)}

\* resp.data of GET <upstream>/backend-api/v2/models
Payloads ==
  ProviderKeyedPayloads \cup ArrayPayloads \cup {ScenarioC} \cup ObjectPayloads
  \cup StringPayloads \cup PrimitivePayloads

\* response.data of GET <upstream>/v1/providers
ProviderBodies == {Text(<<>>), JSONStringify(Arr(Strs(<<"A", "B">>)))}

\* ------------------------------------------------------------------- state

VARIABLES
  envProvider,  \* process.env.LLM_PROXY_PROVIDER
  m_pc,         \* GET /v1/models: "idle", "awaiting" (upstream asked), "done"
  m_headers,    \* its inbound authorization header
  m_sent,       \* the Authorization header of its upstream request
  m_data,       \* resp.data
  m_rule,       \* the branch of the normalisation that ran
  m_models,     \* `models` after the normalisation
  m_result,     \* what getModels resolved or rejected with
  p_pc,         \* GET /v1/providers: "idle", "awaiting", "done"
  p_headers,    \* its inbound authorization header
  p_sent,       \* the Authorization header of its upstream request
  p_result,     \* what getProviders resolved or rejected with
  c_pc,         \* POST /v1/chat/completions: "idle", "subscribed", "piping",
                \* "errored" (the observable failed), "reported"
  c_headers,    \* its inbound authorization header
  c_sent,       \* the Authorization header of its upstream request
  c_body,       \* body['provider'] of its upstream request
  up,           \* the upstream connection: "none", "pending", "failed",
                \* "streaming", "ended", "dropped", "destroyed"
  produced,     \* chunks the upstream has sent
  buf,          \* chunks in the upstream stream's buffer, not yet written
  piped,        \* the upstream stream is piped into res
  res,          \* the caller's response: "none", "open", "ended", "closed"
  relayed,      \* chunks written to res
  proc          \* the gateway process: "up" or "crashed"

modelsVars == <<m_pc, m_headers, m_sent, m_data, m_rule, m_models, m_result>>
providersVars == <<p_pc, p_headers, p_sent, p_result>>
relayVars ==
  <<c_pc, c_headers, c_sent, c_body, up, produced, buf, piped, res, relayed, proc>>
vars == <<envProvider, modelsVars, providersVars, relayVars>>

NoResult == [kind |-> "none"]

Init ==
  /\ envProvider \in EnvProviders
  /\ m_pc = "idle" /\ m_headers = None /\ m_sent = None /\ m_data = Undefined
  /\ m_rule = "none" /\ m_models = <<>> /\ m_result = NoResult
  /\ p_pc = "idle" /\ p_headers = None /\ p_sent = None /\ p_result = NoResult
  /\ c_pc = "idle" /\ c_headers = None /\ c_sent = None /\ c_body = None
  /\ up = "none" /\ produced = 0 /\ buf = 0 /\ piped = FALSE
  /\ res = "none" /\ relayed = 0 /\ proc = "up"

\* ------------------------------------------------------------ GET /v1/models

\* getModels up to the await: the upstream is asked with the inbound header.
GetModelsCall(headers) ==
  /\ m_pc = "idle"
  /\ m_pc' = "awaiting"
  /\ m_headers' = headers
  /\ m_sent' = AuthHeaders(headers)
  /\ UNCHANGED <<m_data, m_rule, m_models, m_result>>
  /\ UNCHANGED <<envProvider, providersVars, relayVars>>

\* The upstream answers with resp.data = d; getModels runs to its end.
GetModelsReply(d) ==
  /\ m_pc = "awaiting"
  /\ m_pc' = "done"
  /\ m_data' = d
  /\ m_rule' = Normalize(d).rule
  /\ m_models' = Normalize(d).models
  /\ m_result' = GetModelsOutcome(d, envProvider)
  /\ UNCHANGED <<m_headers, m_sent>>
  /\ UNCHANGED <<envProvider, providersVars, relayVars>>

\* The upstream call fails: lastValueFrom rejects and getModels with it.
GetModelsUpstreamError ==
  /\ m_pc = "awaiting"
  /\ m_pc' = "done"
  /\ m_result' = [kind |-> "UpstreamError"]
  /\ UNCHANGED <<m_headers, m_sent, m_data, m_rule, m_models>>
  /\ UNCHANGED <<envProvider, providersVars, relayVars>>

\* --------------------------------------------------------- GET /v1/providers

\* The controller calls getProviders() without the request's headers, and
\* getProviders asks the upstream without any.
GetProvidersCall(headers) ==
  /\ p_pc = "idle"
  /\ p_pc' = "awaiting"
  /\ p_headers' = headers
  /\ p_sent' = None
  /\ UNCHANGED p_result
  /\ UNCHANGED <<envProvider, modelsVars, relayVars>>

\* The upstream answers: response.data is returned as it is.
GetProvidersReply(body) ==
  /\ p_pc = "awaiting"
  /\ p_pc' = "done"
  /\ p_result' = [kind |-> "ok", body |-> body]
  /\ UNCHANGED <<p_headers, p_sent>>
  /\ UNCHANGED <<envProvider, modelsVars, relayVars>>

GetProvidersUpstreamError ==
  /\ p_pc = "awaiting"
  /\ p_pc' = "done"
  /\ p_result' = [kind |-> "UpstreamError"]
  /\ UNCHANGED <<p_headers, p_sent>>
  /\ UNCHANGED <<envProvider, modelsVars, relayVars>>

\* -------------------------------------------------- POST /v1/chat/completions

\* The controller calls the service, which sets body['provider'], posts to the
\* upstream with responseType 'stream', and the controller subscribes with a
\* next handler only.
PostCompletions(headers) ==
  /\ c_pc = "idle" /\ proc = "up"
  /\ c_pc' = "subscribed"
  /\ c_headers' = headers
  /\ c_sent' = AuthHeaders(headers)
  /\ c_body' = envProvider
  /\ up' = "pending"
  /\ res' = "open"
  /\ UNCHANGED <<produced, buf, piped, relayed, proc>>
  /\ UNCHANGED <<envProvider, modelsVars, providersVars>>

\* The upstream call fails before a response: the observable errors. The
\* subscription has no error handler, so nothing touches res.
UpstreamCallFails ==
  /\ c_pc = "subscribed" /\ up = "pending" /\ proc = "up"
  /\ c_pc' = "errored"
  /\ up' = "failed"
  /\ UNCHANGED <<c_headers, c_sent, c_body, produced, buf, piped, res, relayed, proc>>
  /\ UNCHANGED <<envProvider, modelsVars, providersVars>>

\* The error no handler took is reported by the library on a later tick: it
\* is rethrown there, which ends the process unless the host installs a hook
\* for it. Which of the two the deployment does is not decided by this code.
ReportUnhandledError ==
  /\ c_pc = "errored" /\ proc = "up"
  /\ c_pc' = "reported"
  /\ \/ proc' = "crashed" /\ res' = "closed"
     \/ proc' = "up" /\ res' = res
  /\ UNCHANGED <<c_headers, c_sent, c_body, up, produced, buf, piped, relayed>>
  /\ UNCHANGED <<envProvider, modelsVars, providersVars>>

\* The upstream's response arrives: next(stream) runs stream.pipe(res). Piped
\* into a response the caller has already left, the stream is unpiped again
\* at once.
UpstreamResponds ==
  /\ c_pc = "subscribed" /\ up = "pending" /\ proc = "up"
  /\ c_pc' = "piping"
  /\ up' = "streaming"
  /\ piped' = (res = "open")
  /\ UNCHANGED <<c_headers, c_sent, c_body, produced, buf, res, relayed, proc>>
  /\ UNCHANGED <<envProvider, modelsVars, providersVars>>

\* The upstream sends a chunk, which the stream buffers.
UpstreamChunk ==
  /\ up = "streaming" /\ produced < MaxChunks /\ proc = "up"
  /\ produced' = produced + 1
  /\ buf' = buf + 1
  /\ UNCHANGED <<c_pc, c_headers, c_sent, c_body, up, piped, res, relayed, proc>>
  /\ UNCHANGED <<envProvider, modelsVars, providersVars>>

\* pipe's 'data' handler: a buffered chunk is written to res.
PipeData ==
  /\ piped /\ buf > 0 /\ res = "open" /\ up \in {"streaming", "ended"}
  /\ proc = "up"
  /\ buf' = buf - 1
  /\ relayed' = relayed + 1
  /\ UNCHANGED <<c_pc, c_headers, c_sent, c_body, up, produced, piped, res, proc>>
  /\ UNCHANGED <<envProvider, modelsVars, providersVars>>

\* The upstream finishes its response and closes.
UpstreamEnd ==
  /\ up = "streaming" /\ proc = "up"
  /\ up' = "ended"
  /\ UNCHANGED <<c_pc, c_headers, c_sent, c_body, produced, buf, piped, res, relayed, proc>>
  /\ UNCHANGED <<envProvider, modelsVars, providersVars>>

\* pipe's 'end' handler, once the buffer is drained: res.end().
PipeEnd ==
  /\ piped /\ up = "ended" /\ buf = 0 /\ res = "open" /\ proc = "up"
  /\ res' = "ended"
  /\ piped' = FALSE
  /\ UNCHANGED <<c_pc, c_headers, c_sent, c_body, up, produced, buf, relayed, proc>>
  /\ UNCHANGED <<envProvider, modelsVars, providersVars>>

\* The upstream connection drops in mid-stream: the stream is destroyed, it
\* emits no 'end', and pipe listens on the source for 'data' and 'end' only.
UpstreamDrop ==
  /\ up = "streaming" /\ proc = "up"
  /\ up' = "dropped"
  /\ buf' = 0
  /\ UNCHANGED <<c_pc, c_headers, c_sent, c_body, produced, piped, res, relayed, proc>>
  /\ UNCHANGED <<envProvider, modelsVars, providersVars>>

\* The caller disconnects: res closes, and pipe's handler for the
\* destination's 'close' unpipes the source, which is all it does.
CallerDisconnect ==
  /\ res = "open" /\ proc = "up"
  /\ res' = "closed"
  /\ piped' = FALSE
  /\ UNCHANGED <<c_pc, c_headers, c_sent, c_body, up, produced, buf, relayed, proc>>
  /\ UNCHANGED <<envProvider, modelsVars, providersVars>>

\* ----------------------------------------------------------- specifications

\* GET /v1/models.
Next ==
  \/ \E headers \in InboundAuth : GetModelsCall(headers)
  \/ \E d \in Payloads : GetModelsReply(d)
  \/ GetModelsUpstreamError

Spec == Init /\ [][Next]_vars

\* The two routes that pass the upstream's answer through: GET /v1/providers
\* and the streaming POST /v1/chat/completions.
PassNext ==
  \/ \E headers \in InboundAuth : GetProvidersCall(headers)
  \/ \E body \in ProviderBodies : GetProvidersReply(body)
  \/ GetProvidersUpstreamError
  \/ \E headers \in InboundAuth : PostCompletions(headers)
  \/ UpstreamCallFails
  \/ ReportUnhandledError
  \/ UpstreamResponds
  \/ UpstreamChunk
  \/ PipeData
  \/ UpstreamEnd
  \/ PipeEnd
  \/ UpstreamDrop
  \/ CallerDisconnect

\* The event loop runs every callback that is ready; what the upstream and
\* the caller do is up to them.
PassFairness ==
  /\ WF_vars(PipeData)
  /\ WF_vars(PipeEnd)
  /\ WF_vars(ReportUnhandledError)

PassSpec == Init /\ [][PassNext]_vars /\ PassFairness

\* ------------------------------------------------------------------ claims

\* The upstream has answered GET /v1/models and getModels has run.
Answered == m_pc = "done" /\ m_rule # "none"

NameOf(model) == Get(model, "name")
\* The names of the elements that have one.
NamesOf(models) ==
  LET named == SelectSeq(models, LAMBDA m : NameOf(m) # Undefined) IN
  [i \in 1..Len(named) |-> NameOf(named[i])]
Distinct(seq) == \A i, j \in 1..Len(seq) : i # j => seq[i] # seq[j]
Range(seq) == {seq[i] : i \in 1..Len(seq)}
Ids(result) == [i \in 1..Len(result.data) |-> result.data[i].id]
KeyOrders(n) == {f \in [1..n -> 1..n] : \A i, j \in 1..n : i # j => f[i] # f[j]}

\* The provider keys of d whose list holds `name`, in the order of the keys.
Listing(d, name) ==
  Strs(SelectSeq(Keys(d),
         LAMBDA k : \E i \in 1..Len(d.o) : d.o[i].k = k /\ name \in Range(d.o[i].v.a)))

\* C1: for a provider-keyed payload the canonical list holds one record per
\* distinct model name, whose providers are the providers listing the model,
\* each once, in the order of first appearance; and the number of records is
\* the same for every order of the provider keys.
C1_ProviderKeyedInversion ==
  (Answered /\ m_rule = "providerKeyed") =>
    /\ Distinct([i \in 1..Len(m_models) |-> NameOf(m_models[i])])
    /\ {NameOf(m_models[i]) : i \in 1..Len(m_models)}
         = UNION {Range(m_data.o[i].v.a) : i \in 1..Len(m_data.o)}
    /\ \A i \in 1..Len(m_models) :
         Get(m_models[i], "providers") = Arr(Listing(m_data, NameOf(m_models[i])))
    /\ \A f \in KeyOrders(Len(m_data.o)) :
         Len(Normalize(Obj([i \in 1..Len(m_data.o) |-> m_data.o[f[i]]])).models)
           = Len(m_models)

\* Some record of the canonical list has a provider equal to the configured
\* key, letter case aside.
CaseEqual(a, b) == ToLowerCase(a) = ToLowerCase(b)
ConfiguredKey == IF envProvider.has THEN envProvider.val ELSE ""
ClaimedProviders(model) ==
  IF model.t # "object" THEN {}
  ELSE LET p == Get(model, "providers") IN
    CASE p.t = "array" -> {ToStr(p.a[i]) : i \in 1..Len(p.a)}
      [] p.t = "string" -> {p.s}
      [] p.t = "object" -> {p.o[i].k : i \in 1..Len(p.o)}
      [] OTHER -> {}
HasConfiguredProvider(model) ==
  \E id \in ClaimedProviders(model) : CaseEqual(id, ConfiguredKey)

\* C2: once the upstream has answered, getModels ends in one of three ways:
\* 'No models found' with a sample of the payload exactly when the canonical
\* list is empty, 'No models matched' with a sample of the models exactly when
\* the list is non-empty and no record matches, and success with non-empty
\* data otherwise.
C2_ThreeOutcomes ==
  Answered =>
    LET noMatch == \A i \in 1..Len(m_models) : ~HasConfiguredProvider(m_models[i]) IN
    /\ m_result.kind \in {"ok", "NotFoundException"}
    /\ (m_models = <<>>) <=>
         (m_result.kind = "NotFoundException" /\ m_result.msg = "No models found")
    /\ (m_models # <<>> /\ noMatch) <=>
         (m_result.kind = "NotFoundException" /\ m_result.msg = "No models matched")
    /\ (m_result.kind = "NotFoundException" /\ m_result.msg = "No models found")
         => m_result.sample = m_data
    /\ (m_result.kind = "NotFoundException" /\ m_result.msg = "No models matched")
         => m_result.sample = Slice(m_models)
    /\ m_result.kind = "ok" => m_result.data # <<>>

\* C3: the data getModels returns are the records of the canonical list that
\* have a provider equal to the configured key, letter case aside, in the
\* list's order; providers may be an array, a single string or an object.
C3_FilterIsCaseInsensitiveSubsequence ==
  (Answered /\ m_result.kind = "ok") =>
    Ids(m_result)
      = [i \in 1..Len(SelectSeq(m_models, HasConfiguredProvider)) |->
           NameOf(SelectSeq(m_models, HasConfiguredProvider)[i])]

\* A record whose providers is a single string or an object was kept under a
\* key that differs from its provider in letter case, and another was dropped.
C3_Witness ==
  /\ Answered /\ m_result.kind = "ok"
  /\ Len(m_result.data) < Len(m_models)
  /\ \E i \in 1..Len(m_models) :
       /\ m_models[i].t = "object"
       /\ Get(m_models[i], "providers").t \in {"string", "object"}
       /\ HasConfiguredProvider(m_models[i])
       /\ ConfiguredKey \notin ClaimedProviders(m_models[i])

\* The relay has an upstream failure to answer for: the call failed, or the
\* stream dropped after it began.
UpstreamFailed == c_pc \in {"errored", "reported", "piping"} /\ up \in {"failed", "dropped"}

\* C4: whenever the upstream call fails or the upstream stream drops, before
\* or after the first byte was relayed, the response to the caller is
\* eventually terminated.
C4_FailureTerminatesResponse == UpstreamFailed ~> (res # "open")

\* The upstream connection is no longer held: the upstream closed it, it
\* dropped, or the gateway destroyed the stream.
UpstreamReleased == up \in {"ended", "dropped", "destroyed"}

\* C5: whenever the caller disconnects while the relay is in progress, the
\* upstream connection is eventually released.
C5_DisconnectReleasesUpstream ==
  (c_pc = "piping" /\ up = "streaming" /\ relayed > 0 /\ res = "closed")
    ~> UpstreamReleased

\* The upstream request carries exactly the inbound Authorization header.
Forwarded(pc, headers, sent) == pc # "idle" => sent = headers

\* C6: each of the three upstream calls carries the inbound request's
\* Authorization header unchanged when it has one, and none when it has none.
C6_AuthorizationPassedThrough ==
  /\ Forwarded(m_pc, m_headers, m_sent)
  /\ Forwarded(p_pc, p_headers, p_sent)
  /\ Forwarded(c_pc, c_headers, c_sent)

\* C7: whatever the payload, getModels lets nothing but the NotFound condition
\* escape from normalisation and filtering, and a payload of unrecognised
\* shape gives an empty canonical list.
C7_OnlyNotFoundEscapes ==
  Answered =>
    /\ m_result.kind \in {"ok", "NotFoundException"}
    /\ m_rule = "unexpected" => m_models = <<>>

\* C8 as stated: whichever rule normalised the payload, the names of the
\* canonical list, and the ids of the returned data, are pairwise distinct.
C8_NamesDistinctEveryShape ==
  Answered =>
    /\ Distinct(NamesOf(m_models))
    /\ m_result.kind = "ok" => Distinct(Ids(m_result))

\* C8, amended: for a provider-keyed payload the names of the canonical list,
\* and the ids of the returned data, are pairwise distinct.
C8_NamesDistinctProviderKeyed ==
  (Answered /\ m_rule = "providerKeyed") =>
    /\ Distinct(NamesOf(m_models))
    /\ m_result.kind = "ok" => Distinct(Ids(m_result))

\* A provider-keyed payload naming one model under two providers, and again
\* within one list, was merged into a single returned entry.
C8_Witness ==
  /\ Answered /\ m_rule = "providerKeyed" /\ m_result.kind = "ok"
  /\ Len(m_data.o) = 2
  /\ \E n \in Range(m_data.o[1].v.a) : n \in Range(m_data.o[2].v.a)
  /\ \E i \in 1..2 : ~Distinct(m_data.o[i].v.a)

ScenarioEServed == Answered /\ m_data = ScenarioE /\ envProvider = Some("B")

\* C9 as stated: for {"A":["m"],"B":["m","x"],"C":["m"]} and provider "B" the
\* canonical list has the 2 models m and x and the output has m alone.
C9_ScenarioEOneModel ==
  ScenarioEServed =>
    /\ [i \in 1..Len(m_models) |-> NameOf(m_models[i])] = Strs(<<"m", "x">>)
    /\ m_result.kind = "ok" /\ Ids(m_result) = Strs(<<"m">>)

\* C9, amended: for that payload and provider the canonical list has the 2
\* models m and x, and the output has both, x being listed under "B".
C9_ScenarioEBothModels ==
  ScenarioEServed =>
    /\ [i \in 1..Len(m_models) |-> NameOf(m_models[i])] = Strs(<<"m", "x">>)
    /\ m_result.kind = "ok" /\ Ids(m_result) = Strs(<<"m", "x">>)

C9_Witness == ScenarioEServed /\ m_result.kind = "ok"

\* d is a non-null, non-array object with an array-valued field `key`.
HasArrayField(d, key) ==
  d.t = "object" /\ \E i \in 1..Len(d.o) : d.o[i].k = key /\ d.o[i].v.t = "array"
FieldOf(d, key) == d.o[CHOOSE i \in 1..Len(d.o) : d.o[i].k = key].v.a

\* What the first three rules make of d; <<>> when none of them fits.
FirstThreeRules(d) ==
  CASE d.t = "array" -> d.a
    [] HasArrayField(d, "models") -> FieldOf(d, "models")
    [] HasArrayField(d, "data") -> FieldOf(d, "data")
    [] OTHER -> <<>>

\* C10: the shape rules apply in the order array, `models` field, `data`
\* field, string, provider-keyed object, unrecognised, and the first that fits
\* decides: an object with an array `models` (or `data`) field is never
\* inverted, and a string is parsed and then put to the first three rules
\* only, so that a string encoding a provider-keyed object gives an empty list.
C10_FirstMatchWins ==
  Answered =>
    /\ m_rule =
         (CASE m_data.t = "array" -> "array"
            [] HasArrayField(m_data, "models") -> "models"
            [] HasArrayField(m_data, "data") -> "data"
            [] m_data.t = "string" -> "string"
            [] m_data.t = "object"
                 /\ \A i \in 1..Len(m_data.o) :
                      /\ m_data.o[i].v.t = "array"
                      /\ \A j \in 1..Len(m_data.o[i].v.a) :
                           m_data.o[i].v.a[j].t = "string" -> "providerKeyed"
            [] OTHER -> "unexpected")
    /\ m_rule \in {"array", "models", "data"} => m_models = FirstThreeRules(m_data)
    /\ m_rule = "string" =>
         m_models = (IF JSONParse(m_data).ok
                     THEN FirstThreeRules(JSONParse(m_data).v) ELSE <<>>)
    /\ m_rule = "unexpected" => m_models = <<>>

\* An object that is provider-keyed by its values, but has an array `models`
\* field, was taken by the `models` rule.
C10_Witness ==
  /\ Answered /\ m_rule = "models"
  /\ IsProviderKeyedFormat(m_data)
  /\ m_models = Strs(<<"m">>)

\* A string encoding a provider-keyed object gave an empty canonical list.
StringOfProviderKeyedIsEmpty ==
  /\ Answered /\ m_rule = "string" /\ m_models = <<>>
  /\ JSONParse(m_data).ok /\ JSONParse(m_data).v = ScenarioE

====
